---- MODULE Spec2Model ----
(***************************************************************************)
(* Model of ndx_monitor.py: repeated runs of main() against the CSV store  *)
(* market_daily.csv, with the UTC clock advancing between and during runs. *)
(* Prices and fractions are exact rationals <<numerator, denominator>>.    *)
(***************************************************************************)
EXTENDS Integers, Sequences, FiniteSets, TLC

\* ---------------------------------------------------------------- bounds
MaxDay == 2          \* the clock takes the UTC dates 1..MaxDay
MaxRuns == 2         \* invocations of main

\* ------------------------------------------------------------- constants
\* INDEXES, in the dict's iteration order (names transliterated).
INDEXES ==
    << [Ticker |-> "^NDX",  Name |-> "Nasdaq 100"],
       [Ticker |-> "^GSPC", Name |-> "S&P 500"],
       [Ticker |-> "^DJI",  Name |-> "Dow Jones Industrial"] >>

\* get_config()['ALERT_THRESHOLD'] default, -0.03 as a fraction.
ALERT_THRESHOLD == <<-3, 100>>

\* The four notification channels, in the order main calls them.
Channels == <<"email", "telegram", "discord", "wechat">>

\* The config key that enables each channel (SMTP_SERVER, TELEGRAM_BOT_TOKEN,
\* DISCORD_WEBHOOK_URL, WECHAT_WEBHOOK_URL): a config is the set of channels
\* whose key is set in the environment.  The environments considered: no
\* channel, every channel, and two channels with unconfigured ones before
\* and between them.
Configs ==
    { {}, {"telegram", "wechat"}, {"email", "telegram", "discord", "wechat"} }

\* Columns of the DataFrame built from the row dicts of main.
Columns == <<"Date", "Ticker", "Name", "Open", "Close", "Change">>

\* <<Open, Close>> of the bars the data provider may return for a ticker:
\* a fall of exactly 3%, of 5%, and a rise of 1%.
Prices(ticker) ==
    IF ticker = "^NDX" THEN { <<100, 97>>, <<100, 101>> }
    ELSE IF ticker = "^GSPC" THEN { <<200, 190>> }
    ELSE { <<100, 101>> }

Range(s) == { s[k] : k \in 1..Len(s) }

\* ------------------------------------------------------------ arithmetic
RECURSIVE Gcd(_, _)
Gcd(a, b) == IF b = 0 THEN a ELSE Gcd(b, a % b)

Abs(n) == IF n < 0 THEN -n ELSE n

\* n / d for d > 0, in lowest terms.
Frac(n, d) == LET g == Gcd(Abs(n), d) IN << n \div g, d \div g >>

\* a <= b on fractions with positive denominators.
Leq(a, b) == a[1] * b[2] <= b[1] * a[2]

\* ------------------------------------------------------------ market data
\* A daily bar of yfinance's history(): its UTC date and prices.
Bar(d, p) ==
    [ date |-> d, Open |-> p[1], Close |-> p[2],
      High |-> IF p[1] > p[2] THEN p[1] ELSE p[2],
      Low |-> IF p[1] > p[2] THEN p[2] ELSE p[1],
      Volume |-> 1000 ]

\* What stock.history(period="5d") may return when the clock reads `now`:
\* nothing, or bars ending with yesterday's or today's bar.
Histories(ticker, now) ==
    { <<>> } \cup
    { << Bar(d, p) >> : d \in {now - 1, now}, p \in Prices(ticker) }

None == <<>>

get_latest_data_nocheck(hist, now) ==
    IF hist = <<>> THEN None ELSE << hist[Len(hist)], hist >>

\* get_latest_data: None for an empty history or a latest bar not dated today.
get_latest_data(hist, now) ==
    IF hist = <<>>
    THEN None
    ELSE LET latest == hist[Len(hist)]
         IN  IF latest.date # now THEN None ELSE << latest, hist >>

change_over_close(latest) == Frac(latest.Close - latest.Open, latest.Close)

\* main, line 155: change = (Close - Open) / Open.
compute_change(latest) == Frac(latest.Close - latest.Open, latest.Open)

breaches_strict(change, threshold) ==
    Leq(change, threshold) /\ change # threshold

\* main, line 165: change <= ALERT_THRESHOLD.
breaches(change, threshold) == Leq(change, threshold)

\* main, lines 156-163: the row dict.
make_row(today_, index, latest) ==
    [ Date |-> today_, Ticker |-> index.Ticker, Name |-> index.Name,
      Open |-> latest.Open, Close |-> latest.Close,
      Change |-> compute_change(latest) ]

\* ------------------------------------------------------------- CSV store
Key(r) == << r.Date, r.Ticker >>

\* DataFrame.to_csv(index=False): the header line, then one line per row.
to_csv(df) ==
    << Columns >> \o
    [ k \in 1..Len(df) |-> [ c \in 1..Len(Columns) |-> df[k][Columns[c]] ] ]

\* pd.read_csv of a file with a header line: one record per data line,
\* keyed by the header's column names.
read_csv(lines) ==
    LET header == lines[1]
        col(c) == CHOOSE j \in 1..Len(header) : header[j] = c
    IN  [ k \in 1..(Len(lines) - 1) |->
            [ c \in Range(header) |-> lines[k + 1][col(c)] ] ]

drop_duplicates_none(df) == df

drop_duplicates_last(df) ==
    LET keep(k) == \A j \in (k + 1)..Len(df) : Key(df[j]) # Key(df[k])
        F[k \in 0..Len(df)] ==
            IF k = 0 THEN <<>>
            ELSE IF keep(k) THEN Append(F[k - 1], df[k]) ELSE F[k - 1]
    IN  F[Len(df)]

\* DataFrame.drop_duplicates(subset=['Date', 'Ticker']): keep the first row
\* of every key, in order.
drop_duplicates(df) ==
    LET keep(k) == \A j \in 1..(k - 1) : Key(df[j]) # Key(df[k])
        F[k \in 0..Len(df)] ==
            IF k = 0 THEN <<>>
            ELSE IF keep(k) THEN Append(F[k - 1], df[k]) ELSE F[k - 1]
    IN  F[Len(df)]

save_data_overwrite(exists, lines, rows) == rows

\* save_data, lines 132-137: the DataFrame that is written back.
save_data(exists, lines, rows) ==
    IF exists
    THEN drop_duplicates(read_csv(lines) \o rows)
    ELSE rows

\* ------------------------------------------------------------ notification
send_nocatch(configured, ok) ==
    IF ~configured THEN "skipped" ELSE IF ok THEN "sent" ELSE "raised"

\* send_email / send_telegram / send_discord / send_wechat: return at once
\* when the channel's config key is unset; otherwise one transport call
\* inside try/except, whose exception is printed and swallowed.
send(configured, ok) ==
    IF ~configured THEN "skipped" ELSE IF ok THEN "sent" ELSE "failed"

no_rows_never(rows) == FALSE

\* main, line 168: `if not all_rows`.
no_rows(rows) == rows = <<>>

NotifyFirst ==
    << "loop", "email", "telegram", "discord", "wechat", "save", "done" >>

\* main, lines 149-195: the order of the stages of one run.
Stages ==
    << "loop", "save", "email", "telegram", "discord", "wechat", "done" >>

NextStage(s) ==
    Stages[(CHOOSE k \in 1..Len(Stages) : Stages[k] = s) + 1]

\* ------------------------------------------------------------------ state
VARIABLES
    clock,        \* the current UTC date
    file_exists,  \* os.path.exists(DATA_FILE)
    file_lines,   \* lines of DATA_FILE: the header, then the data rows
    runs,         \* invocations of main so far
    pc,           \* position of the running main, "idle" between runs
    config,       \* get_config(): the channels that are configured
    today,        \* main's `today`
    i,            \* index into INDEXES of the loop
    hist,         \* the history fetched by the latest iteration
    all_rows, alerts, charts,
    subject,      \* "none" until the report is built
    saved,        \* history: save_data wrote the file in this run
    status        \* per channel: pending, skipped, sent or failed

vars == << clock, file_exists, file_lines, runs, pc, config, today, i, hist,
           all_rows, alerts, charts, subject, saved, status >>

store_vars == << file_exists, file_lines >>
run_locals == << config, today, i, hist, all_rows, alerts, charts, subject,
                 saved, status >>

Pending == [ ch \in Range(Channels) |-> "pending" ]

\* The data rows of the store as records (empty when there is no readable
\* store).
Store == IF file_exists /\ file_lines # <<>> THEN read_csv(file_lines) ELSE <<>>

Attempted == { ch \in Range(Channels) : status[ch] \in {"sent", "failed"} }

\* The locals of a main that is not running.
Cleared ==
    /\ config' = {}
    /\ today' = 0
    /\ i' = 0
    /\ hist' = <<>>
    /\ all_rows' = <<>>
    /\ alerts' = <<>>
    /\ charts' = <<>>
    /\ subject' = "none"
    /\ saved' = FALSE
    /\ status' = Pending

\* The store before the first run: no file, a zero-byte file, or a file
\* holding only the header line.
Init ==
    /\ clock = 1
    /\ \/ file_exists = FALSE /\ file_lines = <<>>
       \/ file_exists = TRUE /\ file_lines = <<>>
       \/ file_exists = TRUE /\ file_lines = << Columns >>
    /\ runs = 0
    /\ pc = "idle"
    /\ config = {}
    /\ today = 0
    /\ i = 0
    /\ hist = <<>>
    /\ all_rows = <<>>
    /\ alerts = <<>>
    /\ charts = <<>>
    /\ subject = "none"
    /\ saved = FALSE
    /\ status = Pending

\* UTC midnight passes.  The program reads the clock only at the start of
\* main and in get_latest_data, so a midnight after the last fetch of a run
\* is taken when the run is over.
Tick ==
    /\ pc = "idle" \/ (pc = "loop" /\ i <= Len(INDEXES))
    /\ clock < MaxDay
    /\ clock' = clock + 1
    /\ UNCHANGED << store_vars, runs, pc, run_locals >>

\* main, lines 145-147.
Start ==
    /\ pc = "idle"
    /\ runs < MaxRuns
    /\ runs' = runs + 1
    /\ \E c \in Configs : config' = c
    /\ today' = clock
    /\ i' = 1
    /\ pc' = "loop"
    /\ UNCHANGED << clock, store_vars, hist, all_rows, alerts, charts,
                    subject, saved, status >>

\* main, lines 149-166: one iteration of the loop over INDEXES.
Iterate ==
    /\ pc = "loop"
    /\ i <= Len(INDEXES)
    /\ \E h \in Histories(INDEXES[i].Ticker, clock) :
         LET result == get_latest_data(h, clock)
             index == INDEXES[i]
         IN  /\ hist' = h
             /\ IF result = None
                THEN UNCHANGED << all_rows, alerts, charts >>
                ELSE LET latest == result[1]
                         row == make_row(today, index, latest)
                     IN  /\ charts' = Append(charts,
                                [Ticker |-> index.Ticker, hist |-> result[2]])
                         /\ all_rows' = Append(all_rows, row)
                         /\ alerts' =
                              IF breaches(row.Change, ALERT_THRESHOLD)
                              THEN Append(alerts,
                                     [Name |-> index.Name, Change |-> row.Change])
                              ELSE alerts
    /\ i' = i + 1
    /\ UNCHANGED << clock, store_vars, runs, pc, config, today,
                    subject, saved, status >>

\* main, lines 168-170: with no rows the run ends here.
EndLoop ==
    /\ pc = "loop"
    /\ i > Len(INDEXES)
    /\ IF no_rows(all_rows)
       THEN /\ pc' = "idle"
            /\ Cleared
       ELSE /\ pc' = NextStage("loop")
            /\ hist' = <<>>
            /\ UNCHANGED << config, today, i, all_rows, alerts, charts,
                            subject, saved, status >>
    /\ UNCHANGED << clock, store_vars, runs >>

\* main, lines 172-187: save_data, when the file is absent or readable, then
\* the report's subject and body.
Save ==
    /\ pc = "save"
    /\ ~(file_exists /\ file_lines = <<>>)
    /\ LET df == save_data(file_exists, file_lines, all_rows)
       IN  /\ file_lines' = to_csv(df)
           /\ file_exists' = TRUE
    /\ saved' = TRUE
    /\ subject' = IF alerts # <<>> THEN "alert" ELSE "normal"
    /\ pc' = NextStage("save")
    /\ UNCHANGED << clock, runs, config, today, i, hist, all_rows,
                    alerts, charts, status >>

\* main, line 172, on a zero-byte file: pd.read_csv raises EmptyDataError,
\* nothing catches it and the run dies.
SaveRaises ==
    /\ pc = "save"
    /\ file_exists /\ file_lines = <<>>
    /\ pc' = "idle"
    /\ Cleared
    /\ UNCHANGED << clock, store_vars, runs >>

\* main, one of lines 190-193: the call of channel ch.  An exception that
\* leaves the channel's function ends the run.
Send(ch) ==
    /\ pc = ch
    /\ \E ok \in BOOLEAN :
         LET r == send(ch \in config, ok)
         IN  IF r = "raised"
             THEN /\ pc' = "idle"
                  /\ Cleared
             ELSE /\ status' = [status EXCEPT ![ch] = r]
                  /\ pc' = NextStage(ch)
                  /\ UNCHANGED << config, today, i, hist, all_rows, alerts,
                                  charts, subject, saved >>
    /\ UNCHANGED << clock, store_vars, runs >>

send_email == Send("email")
send_telegram == Send("telegram")
send_discord == Send("discord")
send_wechat == Send("wechat")

\* main, line 195 and the return.
Finish ==
    /\ pc = "done"
    /\ pc' = "idle"
    /\ Cleared
    /\ UNCHANGED << clock, store_vars, runs >>

Next ==
    \/ Tick
    \/ Start
    \/ Iterate
    \/ EndLoop
    \/ Save
    \/ SaveRaises
    \/ send_email
    \/ send_telegram
    \/ send_discord
    \/ send_wechat
    \/ Finish

Spec == Init /\ [][Next]_vars

\* ----------------------------------------------------------------- claims
StoreKeys == { Key(r) : r \in Range(Store) }

\* The latest bar behind each chart, i.e. of each index that passed the
\* freshness check in this run.
FreshBars ==
    { [Ticker |-> c.Ticker, latest |-> c.hist[Len(c.hist)]] : c \in Range(charts) }

\* The UTC date of the bar this run's row of a ticker was computed from.
BarDate(ticker) ==
    (CHOOSE b \in FreshBars : b.Ticker = ticker).latest.date

\* The run is about to save and the store already holds a record dated
\* `today`: an earlier run of the same calendar day stored it.
SameDayRerun ==
    pc = "save" /\ \E r \in Range(Store) : r.Date = today

NameOf(ticker) ==
    (CHOOSE x \in Range(INDEXES) : x.Ticker = ticker).Name

\* C1: the persisted store holds at most one record for every
\* (Date, Ticker) pair.
C1_UniqueKeys ==
    LET st == Store
    IN  \A j, k \in 1..Len(st) : j # k => Key(st[j]) # Key(st[k])

\* A second or later run saved, and a row it fetched was dropped because its
\* key was already stored.
C1_Witness ==
    /\ saved
    /\ runs >= 2
    /\ Len(Store) > Len(all_rows)
    /\ \E r \in Range(all_rows) : r \notin Range(Store)

\* C2 (as stated): a later run on the same calendar day as an earlier run
\* (one that stored a record of that day) leaves the set of stored records
\* as it was.
C2_RerunIsNoOp ==
    [][ SameDayRerun => Range(Store') = Range(Store) ]_vars

\* C2 (amended): a later run on the same calendar day keeps every stored
\* record, in place and unchanged, appends only fetched rows whose
\* (Date, Ticker) key had no record, and leaves the store as it was when
\* every row it fetched already has a record.
C2_RerunAddsOnlyMissing ==
    [][ SameDayRerun =>
          /\ Len(Store') >= Len(Store)
          /\ \A k \in 1..Len(Store) : Store'[k] = Store[k]
          /\ \A k \in (Len(Store) + 1)..Len(Store') :
                /\ Store'[k] \in Range(all_rows)
                /\ Key(Store'[k]) \notin StoreKeys
          /\ (\A r \in Range(all_rows) : Key(r) \in StoreKeys)
                => Store' = Store
      ]_vars

\* A same-day rerun has saved and none of the rows it fetched was written:
\* each had a record of that day, with other prices.
C2_Witness ==
    /\ saved
    /\ all_rows # <<>>
    /\ \A r \in Range(all_rows) :
          /\ r \notin Range(Store)
          /\ Key(r) \in StoreKeys

C4_AlertsExact ==
    LET breaching ==
          { NameOf(b.Ticker) : b \in
              { x \in FreshBars :
                  (x.latest.Close - x.latest.Open) * ALERT_THRESHOLD[2]
                      <= ALERT_THRESHOLD[1] * x.latest.Open } }
    IN  /\ { a.Name : a \in Range(alerts) } = breaching
        /\ subject # "none" => (subject = "alert" <=> breaching # {})

\* A report with the alert subject whose alerts include an index that fell
\* by exactly the threshold, beside an index that did not breach.
C4_Witness ==
    /\ subject = "alert"
    /\ \E a \in Range(alerts) : a.Change = ALERT_THRESHOLD
    /\ Len(alerts) < Len(all_rows)

C6_NineFields ==
    \A r \in Range(Store) :
        DOMAIN r = { "Date", "Ticker", "Name", "Open", "Close", "High",
                     "Low", "Volume", "Change" }

\* C6 (amended): every stored record has the six fields Date, Ticker, Name,
\* Open, Close and Change, with Change = (Close - Open) / Open.
C6_SixFields ==
    \A r \in Range(Store) :
        /\ DOMAIN r = { "Date", "Ticker", "Name", "Open", "Close", "Change" }
        /\ r.Change[2] > 0
        /\ r.Change[1] * r.Open = (r.Close - r.Open) * r.Change[2]

\* The store holds records of two indices, one of which fell by 5%.
C6_Witness ==
    /\ Len(Store) >= 2
    /\ \E r \in Range(Store) : r.Open = 200 /\ r.Change = << -1, 20 >>

\* C7: an iteration whose fetch returned no bars, or a latest bar not dated
\* today, adds no row, alert or chart and goes on with the next index; a run
\* in which every index is skipped ends without a store write or a call.
C7_SkippedIndex ==
    /\ [][ (pc = "loop" /\ i' = i + 1) =>
             ( (hist' = <<>> \/ hist'[Len(hist')].date # clock) =>
                 /\ all_rows' = all_rows
                 /\ alerts' = alerts
                 /\ charts' = charts
                 /\ pc' = "loop"
                 /\ UNCHANGED store_vars )
         ]_vars
    /\ [][ (pc = "loop" /\ pc' # "loop" /\ all_rows = <<>>) =>
             (pc' = "idle" /\ UNCHANGED store_vars) ]_vars
    /\ [](all_rows = <<>> => (Attempted = {} /\ ~saved))

\* The loop is over: the first and the third index were skipped (the third
\* for an empty history) and the second was processed.
C7_Witness ==
    /\ pc = "loop"
    /\ i = Len(INDEXES) + 1
    /\ hist = <<>>
    /\ Len(all_rows) = 1
    /\ all_rows[1].Ticker = "^GSPC"

\* C8: each channel is attempted at most once and only if configured; a
\* channel's step, failed or not, leaves the store alone and is followed by
\* the next stage, so the later channels are attempted and the run reaches
\* its end.
C8_ChannelSteps ==
    /\ [][ \A ch \in Range(Channels) :
             status'[ch] # status[ch] =>
               \/ pc = "done" /\ pc' = "idle"
               \/ /\ pc = ch
                  /\ status[ch] = "pending"
                  /\ (status'[ch] \in {"sent", "failed"}) <=> (ch \in config)
                  /\ (status'[ch] = "skipped") <=> (ch \notin config)
         ]_vars
    /\ [][ (pc \in Range(Channels)) =>
             (pc' = NextStage(pc) /\ UNCHANGED store_vars) ]_vars
    /\ [](pc = "done" => Attempted = config)

\* A finished run: email was not configured, Telegram failed, and WeChat
\* was still sent.
C8_Witness ==
    /\ pc = "done"
    /\ status["email"] = "skipped"
    /\ status["telegram"] = "failed"
    /\ status["wechat"] = "sent"

\* C9: a stored record is never removed and its Open, Close and Change
\* never change.
C9_FirstWriterWins ==
    [][ << file_exists, file_lines >>' # << file_exists, file_lines >> =>
          \A r \in Range(Store) :
             \E q \in Range(Store') :
                /\ Key(q) = Key(r)
                /\ q.Open = r.Open
                /\ q.Close = r.Close
                /\ q.Change = r.Change
      ]_vars

\* A run has saved after fetching, for a stored key, prices other than the
\* stored ones.
C9_Witness ==
    /\ saved
    /\ \E r \in Range(all_rows) :
         \E q \in Range(Store) : Key(q) = Key(r) /\ q.Close # r.Close

\* C10: the Date of every record a run adds to the store is the UTC date of
\* the bar it was computed from.
C10_DateIsBarDate ==
    [][ pc = "save" =>
          \A r \in Range(all_rows) :
             (Key(r) \notin StoreKeys /\ r \in Range(Store'))
                => r.Date = BarDate(r.Ticker)
      ]_vars

====
